---- MODULE Spec2Model ----
(***************************************************************************)
(* A model of app.py: the Flask handler predict() of POST /predict, its    *)
(* two feature encoders and the calls it makes on the loaded classifier.   *)
(*                                                                         *)
(* Strings that the code inspects character by character (form values)     *)
(* are sequences of one-character strings.  Floating-point numbers are     *)
(* records: a finite number is held in hundredths (1.0 is Fin(100)), and   *)
(* nan and the infinities are values of their own.  Probabilities are      *)
(* held in thousandths (0.876 is 876).                                     *)
(***************************************************************************)
EXTENDS Integers, Sequences, FiniteSets, TLC

(* ------------------------------------------------------------------ *)
(* Bounds of the model                                                  *)
(* ------------------------------------------------------------------ *)

\* The largest number of fields an input record (JSON object or form) supplies.
MaxFields == 2

\* The number of requests the server handles at the same time (SpecConc).
NumWorkers == 2

(* ------------------------------------------------------------------ *)
(* State                                                                *)
(* ------------------------------------------------------------------ *)

VARIABLES
    model,      \* the classifier joblib.load returned at startup
    features,   \* the module-level list FEATURES
    pc,         \* per worker: where its call of predict() stands
    request,    \* per worker: the request it is handling
    json_data,  \* per frame: predict()'s local json_data
    branch,     \* per worker: which encoder predict() invoked
    X,          \* per frame: predict()'s local X
    pred,       \* per frame: predict()'s local pred
    proba,      \* per frame: predict()'s local proba
    called,     \* per worker: the classifier calls made and what they got
    exc,        \* per worker: the exception raised inside the try block
    resp        \* per worker: the response returned

vars == << model, features, pc, request, json_data, branch, X, pred, proba,
           called, exc, resp >>

(* ------------------------------------------------------------------ *)
(* The feature schema                                                   *)
(* ------------------------------------------------------------------ *)

FEATURES ==
    << "Sex",
       "Birth Year",
       "Chest pain",
       "Chills or sweats",
       "Confused or disoriented",
       "Cough",
       "Diarrhea",
       "Difficulty breathing or Dyspnea",
       "Fatigue or general weakness",
       "Fever",
       "Fluid in lung cavity in auscultation",
       "Fluid in cavity through X-Ray",
       "Headache",
       "Joint pain or arthritis",
       "Thorax (sore throat)",
       "Muscle pain",
       "Nausea",
       "Other clinical symptoms",
       "Rapid breathing",
       "Runny nose",
       "Maculopapular rash",
       "Sore throat or pharyngitis",
       "Bleeding or bruising",
       "Vomiting",
       "Abnormal lung X-Ray findings",
       "Conjunctivitis",
       "Acute respiratory distress syndrome",
       "Pneumonia (clinical or radiologic)",
       "Loss of Taste",
       "Loss of Smell",
       "Cough with sputum",
       "Cough with heamoptysis",
       "Enlarged lymph nodes",
       "Wheezing",
       "Skin ulcers",
       "Inability to walk",
       "Indrawing of chest wall",
       "Other complications" >>

(* ------------------------------------------------------------------ *)
(* Values                                                               *)
(* ------------------------------------------------------------------ *)

\* Python's None: what get_json(silent=True) returns when there is no JSON
\* body, and what the JSON literal null parses to.
None == [t |-> "none"]

\* Floating-point values (the elements of a numpy array of dtype float).
Fin(h) == [k |-> "fin", v |-> h]
NaN == [k |-> "nan", v |-> 0]
Inf(sign) == [k |-> "inf", v |-> sign]

\* Parsed JSON values: numbers (in hundredths), booleans, strings, null,
\* arrays and objects (a function from key strings to JSON values).
JNum(h) == [t |-> "num", num |-> h]
JBool(b) == [t |-> "bool", bool |-> b]
JStr(s) == [t |-> "str", str |-> s]
JList(l) == [t |-> "list", items |-> l]
JObj(m) == [t |-> "obj", obj |-> m]

\* An exception: its type and the text str(e) gives.
Exc(type, text) == [type |-> type, text |-> text]

Ok(x) == [ok |-> TRUE, val |-> x]
Raise(e) == [ok |-> FALSE, exc |-> e]

(* ------------------------------------------------------------------ *)
(* str.strip(), str.lower() and float(str)                              *)
(* ------------------------------------------------------------------ *)

UpperCase == << "A","B","C","D","E","F","G","H","I","J","K","L","M",
                "N","O","P","Q","R","S","T","U","V","W","X","Y","Z" >>
LowerCase == << "a","b","c","d","e","f","g","h","i","j","k","l","m",
                "n","o","p","q","r","s","t","u","v","w","x","y","z" >>
DigitChars == << "0","1","2","3","4","5","6","7","8","9" >>
Whitespace == {" ", "\t", "\n", "\r"}

IsDigit(c) == \E i \in 1..Len(DigitChars) : DigitChars[i] = c
DigitVal(c) == (CHOOSE i \in 1..Len(DigitChars) : DigitChars[i] = c) - 1

LowerChar(c) ==
    IF \E i \in 1..Len(UpperCase) : UpperCase[i] = c
    THEN LowerCase[CHOOSE i \in 1..Len(UpperCase) : UpperCase[i] = c]
    ELSE c

\* s.lower()
Lower(s) == [i \in 1..Len(s) |-> LowerChar(s[i])]

RECURSIVE LStrip(_)
LStrip(s) ==
    IF s # << >> /\ Head(s) \in Whitespace THEN LStrip(Tail(s)) ELSE s

RECURSIVE RStrip(_)
RStrip(s) ==
    IF s # << >> /\ s[Len(s)] \in Whitespace
    THEN RStrip(SubSeq(s, 1, Len(s) - 1))
    ELSE s

\* s.strip()
Strip(s) == RStrip(LStrip(s))

\* The value of a run of decimal digits.
RECURSIVE DigitsValue(_)
DigitsValue(ds) ==
    IF ds = << >> THEN 0
    ELSE 10 * DigitsValue(SubSeq(ds, 1, Len(ds) - 1)) + DigitVal(ds[Len(ds)])

AllDigits(ds) == \A i \in 1..Len(ds) : IsDigit(ds[i])

\* The fraction digits of a decimal literal, in hundredths (the model's
\* floats hold two fraction digits; further digits are dropped).
FractionHundredths(fs) ==
    (IF Len(fs) >= 1 THEN 10 * DigitVal(fs[1]) ELSE 0)
    + (IF Len(fs) >= 2 THEN DigitVal(fs[2]) ELSE 0)

\* An unsigned decimal literal: digits, optionally a point and digits, with
\* at least one digit in all ("5.", ".5" and "5" are literals, "." is not).
DotAt(u) == IF \E i \in 1..Len(u) : u[i] = "." THEN CHOOSE i \in 1..Len(u) : u[i] = "." ELSE 0
IntPart(u) == IF DotAt(u) = 0 THEN u ELSE SubSeq(u, 1, DotAt(u) - 1)
FracPart(u) == IF DotAt(u) = 0 THEN << >> ELSE SubSeq(u, DotAt(u) + 1, Len(u))
IsDecimal(u) ==
    /\ AllDigits(IntPart(u))
    /\ AllDigits(FracPart(u))
    /\ Len(IntPart(u)) + Len(FracPart(u)) >= 1
DecimalHundredths(u) ==
    100 * DigitsValue(IntPart(u)) + FractionHundredths(FracPart(u))

\* float(s) of a Python str: surrounding whitespace is skipped, then an
\* optional sign and a decimal literal, or (in any letter case) nan, inf or
\* infinity.  Anything else raises ValueError.  (Exponents and digit
\* separators are not modelled; no input of the model uses them.)
PyFloat(s) ==
    LET t == Strip(s)
        signed == t # << >> /\ Head(t) \in {"+", "-"}
        sign == IF signed /\ Head(t) = "-" THEN -1 ELSE 1
        u == IF signed THEN Tail(t) ELSE t
        w == Lower(u)
    IN  IF IsDecimal(u) THEN Ok(Fin(sign * DecimalHundredths(u)))
        ELSE IF w = << "n","a","n" >> THEN Ok(NaN)
        ELSE IF w \in { << "i","n","f" >>, << "i","n","f","i","n","i","t","y" >> }
             THEN Ok(Inf(sign))
        ELSE Raise(Exc("ValueError", "could not convert string to float"))

(* ------------------------------------------------------------------ *)
(* numpy: np.array([vals], dtype=float)                                 *)
(* ------------------------------------------------------------------ *)

\* The conversion of one Python value to a float element: numbers keep
\* their value, True and False become 1.0 and 0.0, None becomes nan, a str
\* is parsed as float(str) parses it, and a dict, or a nested list in a row
\* that also holds scalars (every row of the model: no input supplies all
\* the slots), raises.
ToFloat(val) ==
    CASE val.t = "num" -> Ok(Fin(val.num))
      [] val.t = "bool" -> Ok(Fin(IF val.bool THEN 100 ELSE 0))
      [] val.t = "none" -> Ok(NaN)
      [] val.t = "str" -> PyFloat(val.str)
      [] val.t = "list" ->
            Raise(Exc("ValueError", "setting an array element with a sequence"))
      [] val.t = "obj" ->
            Raise(Exc("TypeError", "float() argument must be a string or a real number"))

\* A conversion that never raises: an element that does not convert becomes
\* nan (the behaviour of a coercing conversion such as errors="coerce").
NpArrayCoerceErrors(vals) ==
    Ok([i \in 1..Len(vals) |->
          IF ToFloat(vals[i]).ok THEN ToFloat(vals[i]).val ELSE NaN])

\* np.array([vals], dtype=float): the row of converted elements, or the
\* exception of the first element that does not convert.
NpArrayFloat(vals) ==
    LET bad == {i \in 1..Len(vals) : ~ToFloat(vals[i]).ok}
    IN  IF bad = {}
        THEN Ok([i \in 1..Len(vals) |-> ToFloat(vals[i]).val])
        ELSE Raise(ToFloat(vals[CHOOSE i \in bad : \A j \in bad : i <= j]).exc)

(* ------------------------------------------------------------------ *)
(* The feature encoders                                                 *)
(* ------------------------------------------------------------------ *)

\* `feat in json_data` for the value get_json returned: key membership for
\* an object, element membership for an array (the arrays of the model hold
\* numbers only, so no feature name is an element), and a TypeError for a
\* number or a boolean, which are not iterable.
Contains(data, feat) ==
    CASE data.t = "obj" -> Ok(feat \in DOMAIN data.obj)
      [] data.t = "list" -> Ok(FALSE)
      [] data.t \in {"num", "bool"} ->
            Raise(Exc("TypeError", "argument is not iterable"))

\* The encoder written with json_data.get(feat): a missing key gives None,
\* not 0.
BuildFeatureVectorFromJsonGet(data) ==
    IF \E i \in 1..Len(features) : ~Contains(data, features[i]).ok
    THEN Raise(Contains(data, features[1]).exc)
    ELSE NpArrayFloat([i \in 1..Len(features) |->
                         IF Contains(data, features[i]).val
                         THEN data.obj[features[i]]
                         ELSE None])

\* build_feature_vector_from_json(json_data)
BuildFeatureVectorFromJson(data) ==
    IF \E i \in 1..Len(features) : ~Contains(data, features[i]).ok
    THEN Raise(Contains(data, features[1]).exc)
    ELSE NpArrayFloat([i \in 1..Len(features) |->
                         IF Contains(data, features[i]).val
                         THEN data.obj[features[i]]
                         ELSE JNum(0)])

\* The strings of the fallback table.
StrMale == << "m","a","l","e" >>
StrFemale == << "f","e","m","a","l","e" >>
StrYes == << "y","e","s" >>
StrTrue == << "t","r","u","e" >>

\* The path a form value that is neither absent nor empty takes: the try
\* (float(raw) succeeds) or the except ValueError clause with its table.
FormPath(raw) == IF PyFloat(raw).ok THEN "numeric" ELSE "lexical"

\* The table looked up without .lower().
CoerceFormValueNoLower(raw) ==
    IF FormPath(raw) = "numeric" THEN PyFloat(raw).val
    ELSE LET s == Strip(raw)
         IN  IF s \in {StrMale, << "m" >>, << "1" >>} THEN Fin(100)
             ELSE IF s \in {StrFemale, << "f" >>, << "0" >>} THEN Fin(0)
             ELSE IF s \in {StrYes, << "y" >>, StrTrue, << "1" >>} THEN Fin(100)
             ELSE Fin(0)

\* One form value that is neither absent nor empty: float(raw), and on
\* ValueError the table on str(raw).strip().lower().
CoerceFormValue(raw) ==
    IF FormPath(raw) = "numeric" THEN PyFloat(raw).val
    ELSE LET s == Lower(Strip(raw))
         IN  IF s \in {StrMale, << "m" >>, << "1" >>} THEN Fin(100)
             ELSE IF s \in {StrFemale, << "f" >>, << "0" >>} THEN Fin(0)
             ELSE IF s \in {StrYes, << "y" >>, StrTrue, << "1" >>} THEN Fin(100)
             ELSE Fin(0)

\* The encoder without its default: an absent or empty field appends
\* nothing, so the vector holds only the supplied fields.
BuildFeatureVectorFromFormSkipAbsent(form) ==
    LET present == SelectSeq([i \in 1..Len(features) |-> i],
                             LAMBDA i : features[i] \in DOMAIN form
                                        /\ form[features[i]] # << >>)
    IN  Ok([j \in 1..Len(present) |-> CoerceFormValue(form[features[present[j]]])])

\* build_feature_vector_from_form(form): form.get(feat, None), 0 when the
\* field is absent or empty.  Every element is already a number, so the
\* final np.array(..., dtype=float) keeps each value.
BuildFeatureVectorFromForm(form) ==
    Ok([i \in 1..Len(features) |->
          IF features[i] \notin DOMAIN form \/ form[features[i]] = << >>
          THEN Fin(0)
          ELSE CoerceFormValue(form[features[i]])])

(* ------------------------------------------------------------------ *)
(* The request                                                          *)
(* ------------------------------------------------------------------ *)

\* A request is [ctype, body]: ctype "json" is a Content-Type of
\* application/json, ctype "form" a form submission.  The body of a JSON
\* request is [kind |-> "json", val |-> v] when its text parses to v and
\* [kind |-> "malformed"] when it does not; the body of a form submission is
\* [kind |-> "form", fields |-> f].
JsonBody(v) == [kind |-> "json", val |-> v]
MalformedBody == [kind |-> "malformed"]
FormBody(f) == [kind |-> "form", fields |-> f]

\* request.is_json
IsJson(req) == req.ctype = "json"

\* request.get_json() without silent=True: a body that does not parse raises
\* BadRequest.
GetJsonNotSilent(req) ==
    IF IsJson(req) /\ req.body.kind = "json" THEN Ok(req.body.val)
    ELSE IF IsJson(req) /\ req.body.kind = "malformed"
    THEN Raise(Exc("BadRequest", "Failed to decode JSON object"))
    ELSE Ok(None)

\* request.get_json(silent=True): the parsed body of a request that declares
\* JSON; None when the request does not declare JSON or its body does not
\* parse (silent: the parse failure raises nothing).
GetJson(req) ==
    IF IsJson(req) /\ req.body.kind = "json" THEN Ok(req.body.val) ELSE Ok(None)

\* request.form: the form fields, empty for a request whose body is not
\* form-encoded.
RequestForm(req) ==
    IF req.ctype = "form" /\ req.body.kind = "form" THEN req.body.fields ELSE << >>

\* Python truth of the value get_json returned (`if json_data:`).
Truthy(data) ==
    CASE data.t = "none" -> FALSE
      [] data.t = "obj" -> DOMAIN data.obj # {}
      [] data.t = "list" -> data.items # << >>
      [] data.t = "num" -> data.num # 0
      [] data.t = "bool" -> data.bool
      [] data.t = "str" -> data.str # << >>

(* ------------------------------------------------------------------ *)
(* The classifier                                                       *)
(* ------------------------------------------------------------------ *)

\* The classifier is the object joblib.load returns: a fixed function of the
\* vector it is given.  The model draws it from a family
\* [threshold, pLow, pHigh, nanOk]: the positive-class probability (in
\* thousandths) is pHigh when the sum of the vector's finite elements reaches
\* the threshold and pLow otherwise; a vector that is not of the trained
\* width is rejected, and so is one holding nan or an infinity unless nanOk.
Classifiers ==
    { [threshold |-> 100, pLow |-> 124, pHigh |-> 876, nanOk |-> FALSE],
      [threshold |-> 200, pLow |-> 331, pHigh |-> 668, nanOk |-> TRUE] }

RECURSIVE Score(_)
Score(x) ==
    IF x = << >> THEN 0
    ELSE (IF Head(x).k = "fin" THEN Head(x).v ELSE 0) + Score(Tail(x))

\* The input validation both predict and predict_proba run first.
ModelValidate(m, x) ==
    IF Len(x) # Len(FEATURES)
    THEN Raise(Exc("ValueError", "X has a different number of features than the classifier expects"))
    ELSE IF ~m.nanOk /\ \E i \in 1..Len(x) : x[i].k # "fin"
    THEN Raise(Exc("ValueError", "Input X contains NaN or infinity"))
    ELSE Ok(x)

\* model.predict_proba(X): the row [P(class 0), P(class 1)] of the one sample.
ModelPredictProba(m, x) ==
    IF ~ModelValidate(m, x).ok THEN ModelValidate(m, x)
    ELSE LET p == IF Score(x) >= m.threshold THEN m.pHigh ELSE m.pLow
         IN  Ok(<< 1000 - p, p >>)

\* model.predict(X): the label of the one sample, the more probable class.
ModelPredict(m, x) ==
    IF ~ModelValidate(m, x).ok THEN ModelValidate(m, x)
    ELSE Ok(IF ModelPredictProba(m, x).val[2] >= 500 THEN 1 ELSE 0)

(* ------------------------------------------------------------------ *)
(* Responses                                                            *)
(* ------------------------------------------------------------------ *)

NegativeMessage == "You have not contracted COVID-19"
PositiveMessage == "You most likely have contracted COVID-19"

\* The message for a label (pred == 0, else).
Message(label) == IF label = 0 THEN NegativeMessage ELSE PositiveMessage

\* float(model.predict_proba(X)[0][0]): the negative-class entry of the row.
NegativeProba(row) == row[1]

\* float(model.predict_proba(X)[0][1]): the positive-class entry of the row.
PositiveProba(row) == row[2]

\* f"{proba:.2f}": a probability in thousandths printed with two decimals,
\* in hundredths (to the nearest; no classifier of the model gives a tie).
Format2f(p) == (p + 5) \div 10

\* f"{message} (Probability: {proba:.2f})"
PredictionText(message, p) ==
    [t |-> "prediction", message |-> message, probability2f |-> Format2f(p)]

\* f"Error: {str(e)}"
ErrorText(e) == [t |-> "error", message |-> e.text, probability2f |-> 0]

\* render_template("index.html", prediction_text=text)
RenderTemplate(text) ==
    [kind |-> "html", status |-> 200, body |-> text]

\* jsonify({"prediction": message, "probability": proba})
JsonPrediction(message, p) ==
    [kind |-> "json", status |-> 200,
     body |-> [prediction |-> message, probability |-> p]]

\* jsonify({"error": str(e)}), 400
JsonError(e) ==
    [kind |-> "json", status |-> 400, body |-> [error |-> e.text]]

\* What Flask answers when an exception leaves the view function.
InternalServerError ==
    [kind |-> "html", status |-> 500, body |-> [t |-> "unhandled", message |-> "", probability2f |-> 0]]

NoResponse ==
    [kind |-> "none", status |-> 0, body |-> [t |-> "none", message |-> "", probability2f |-> 0]]

(* ------------------------------------------------------------------ *)
(* Inputs                                                               *)
(* ------------------------------------------------------------------ *)

\* The field names requests use: schema names (the first, a middle and the
\* last slot) and a name the schema does not hold.
InputKeys == {"Sex", "Fever", "Other complications", "Age"}

\* The values of JSON fields: 1, 0, 2.5, true, "1.5", "abc", null, [1].
JsonValues ==
    { JNum(100), JNum(0), JNum(250), JBool(TRUE),
      JStr(<< "1",".","5" >>), JStr(<< "a","b","c" >>),
      None, JList(<< JNum(100) >>) }

\* The values of form fields.
FormStrings ==
    { << >>,
      << "1" >>, << "0" >>, << "1",".","0" >>, << " ","1"," " >>,
      << "2",".","5" >>,
      << "M","a","l","e" >>, << " ","M"," " >>,
      << "F","E","M","A","L","E" >>, << "f" >>,
      << "y","e","s" >>, << "Y" >>, << "T","r","u","e" >>,
      << "a","b","c" >>, << "n","a","n" >> }

\* The records over InputKeys that supply at most MaxFields fields.
Mappings(vals) ==
    UNION { [S -> vals] : S \in {T \in SUBSET InputKeys : Cardinality(T) <= MaxFields} }

\* Bodies that are JSON text: objects, and the values 0, 5, [] and [1].
JsonBodies ==
    { JsonBody(JObj(m)) : m \in Mappings(JsonValues) }
    \cup { JsonBody(JNum(0)), JsonBody(JNum(500)),
           JsonBody(JList(<< >>)), JsonBody(JList(<< JNum(100) >>)) }

Requests ==
    { [ctype |-> "json", body |-> b] : b \in JsonBodies \cup {MalformedBody} }
    \cup { [ctype |-> "form", body |-> FormBody(f)] : f \in Mappings(FormStrings) }
    \cup { [ctype |-> "form", body |-> JsonBody(JObj([k \in {"Sex"} |-> JNum(100)]))] }

\* The requests of the concurrent specification: a few of Requests, one per
\* outcome of the handler (a JSON prediction, an encoder failure, a malformed
\* body, a form prediction, a vector with nan, an empty form).
ConcRequests ==
    { [ctype |-> "json", body |-> JsonBody(JObj([k \in {"Sex"} |-> JNum(250)]))],
      [ctype |-> "json", body |-> JsonBody(JObj([k \in {"Fever"} |-> JStr(<< "a","b","c" >>)]))],
      [ctype |-> "json", body |-> MalformedBody],
      [ctype |-> "form", body |-> FormBody([k \in {"Sex"} |-> << "M","a","l","e" >>])],
      [ctype |-> "json", body |-> JsonBody(JObj([k \in {"Sex"} |-> None]))],
      [ctype |-> "form", body |-> FormBody(<< >>)] }

(* ------------------------------------------------------------------ *)
(* The handler predict(), one step per statement                        *)
(* ------------------------------------------------------------------ *)

Workers == 1..NumWorkers

\* The locals kept in module-level variables: one frame for every call.
FrameShared(w) == 1

\* The frame that holds the locals (json_data, X, pred, proba) of worker w's
\* call of predict(): every call has a frame of its own.
Frame(w) == w

NoRequest == [ctype |-> "none", body |-> [kind |-> "none"]]
NoExc == [at |-> "none", e |-> Exc("none", "")]
NoVector == << >>
NoNumber == -1

Init ==
    /\ model \in Classifiers
    /\ features = FEATURES
    /\ pc = [w \in Workers |-> "idle"]
    /\ request = [w \in Workers |-> NoRequest]
    /\ json_data = [f \in Workers |-> None]
    /\ branch = [w \in Workers |-> "none"]
    /\ X = [f \in Workers |-> NoVector]
    /\ pred = [f \in Workers |-> NoNumber]
    /\ proba = [f \in Workers |-> NoNumber]
    /\ called = [w \in Workers |-> << >>]
    /\ exc = [w \in Workers |-> NoExc]
    /\ resp = [w \in Workers |-> NoResponse]

\* A POST /predict arrives and a worker enters predict().
Receive(w, reqs) ==
    /\ pc[w] = "idle"
    /\ \E req \in reqs : request' = [request EXCEPT ![w] = req]
    /\ pc' = [pc EXCEPT ![w] = "parse"]
    /\ UNCHANGED << model, features, json_data, branch, X, pred, proba, called, exc, resp >>

\* json_data = request.get_json(silent=True), before the try block: an
\* exception here would leave predict().
ParseJson(w) ==
    /\ pc[w] = "parse"
    /\ LET r == GetJson(request[w])
       IN  IF r.ok
           THEN /\ json_data' = [json_data EXCEPT ![Frame(w)] = r.val]
                /\ pc' = [pc EXCEPT ![w] = "dispatch"]
                /\ UNCHANGED << exc, resp >>
           ELSE /\ exc' = [exc EXCEPT ![w] = [at |-> "parse", e |-> r.exc]]
                /\ resp' = [resp EXCEPT ![w] = InternalServerError]
                /\ pc' = [pc EXCEPT ![w] = "done"]
                /\ UNCHANGED json_data
    /\ UNCHANGED << model, features, request, branch, X, pred, proba, called >>

\* The outcome of an encoder, stored: X on success, the exception otherwise.
Encoded(w, r) ==
    IF r.ok
    THEN /\ X' = [X EXCEPT ![Frame(w)] = r.val]
         /\ pc' = [pc EXCEPT ![w] = "predict"]
         /\ UNCHANGED exc
    ELSE /\ exc' = [exc EXCEPT ![w] = [at |-> "encode", e |-> r.exc]]
         /\ pc' = [pc EXCEPT ![w] = "except"]
         /\ UNCHANGED X

\* if json_data: X = build_feature_vector_from_json(json_data)
EncodeJson(w) ==
    /\ pc[w] = "dispatch"
    /\ Truthy(json_data[Frame(w)])
    /\ branch' = [branch EXCEPT ![w] = "json"]
    /\ Encoded(w, BuildFeatureVectorFromJson(json_data[Frame(w)]))
    /\ UNCHANGED << model, features, request, json_data, pred, proba, called, resp >>

\* otherwise: form = request.form; X = build_feature_vector_from_form(form)
EncodeForm(w) ==
    /\ pc[w] = "dispatch"
    /\ ~Truthy(json_data[Frame(w)])
    /\ branch' = [branch EXCEPT ![w] = "form"]
    /\ Encoded(w, BuildFeatureVectorFromForm(RequestForm(request[w])))
    /\ UNCHANGED << model, features, request, json_data, pred, proba, called, resp >>

\* pred = model.predict(X)[0]
Predict(w) ==
    /\ pc[w] = "predict"
    /\ LET r == ModelPredict(model, X[Frame(w)])
       IN  /\ called' = [called EXCEPT ![w] =
                           Append(@, [fn |-> "predict", arg |-> X[Frame(w)], ret |-> r])]
           /\ IF r.ok
              THEN /\ pred' = [pred EXCEPT ![Frame(w)] = r.val]
                   /\ pc' = [pc EXCEPT ![w] = "predict_proba"]
                   /\ UNCHANGED exc
              ELSE /\ exc' = [exc EXCEPT ![w] = [at |-> "predict", e |-> r.exc]]
                   /\ pc' = [pc EXCEPT ![w] = "except"]
                   /\ UNCHANGED pred
    /\ UNCHANGED << model, features, request, json_data, branch, X, proba, resp >>

\* proba = float(model.predict_proba(X)[0][1])
PredictProba(w) ==
    /\ pc[w] = "predict_proba"
    /\ LET r == ModelPredictProba(model, X[Frame(w)])
       IN  /\ called' = [called EXCEPT ![w] =
                           Append(@, [fn |-> "predict_proba", arg |-> X[Frame(w)], ret |-> r])]
           /\ IF r.ok
              THEN /\ proba' = [proba EXCEPT ![Frame(w)] = PositiveProba(r.val)]
                   /\ pc' = [pc EXCEPT ![w] = "respond"]
                   /\ UNCHANGED exc
              ELSE /\ exc' = [exc EXCEPT ![w] = [at |-> "predict_proba", e |-> r.exc]]
                   /\ pc' = [pc EXCEPT ![w] = "except"]
                   /\ UNCHANGED proba
    /\ UNCHANGED << model, features, request, json_data, branch, X, pred, resp >>

\* The JSON branch with request.is_json: return jsonify({...})
RespondJson(w) ==
    /\ pc[w] = "respond"
    /\ branch[w] = "json" /\ IsJson(request[w])
    /\ resp' = [resp EXCEPT ![w] =
                  JsonPrediction(Message(pred[Frame(w)]), proba[Frame(w)])]
    /\ pc' = [pc EXCEPT ![w] = "done"]
    /\ UNCHANGED << model, features, request, json_data, branch, X, pred, proba, called, exc >>

\* The JSON branch without request.is_json, and the form branch:
\* return render_template("index.html", prediction_text=...)
RespondHtml(w) ==
    /\ pc[w] = "respond"
    /\ ~(branch[w] = "json" /\ IsJson(request[w]))
    /\ resp' = [resp EXCEPT ![w] =
                  RenderTemplate(PredictionText(Message(pred[Frame(w)]), proba[Frame(w)]))]
    /\ pc' = [pc EXCEPT ![w] = "done"]
    /\ UNCHANGED << model, features, request, json_data, branch, X, pred, proba, called, exc >>

\* An except clause that always renders the page.
ErrorResponseAlwaysHtml(req, e) == RenderTemplate(ErrorText(e))

\* The response of the except clause to exception e.
ErrorResponse(req, e) ==
    IF IsJson(req) THEN JsonError(e) ELSE RenderTemplate(ErrorText(e))

\* except Exception as e: ...
HandleException(w) ==
    /\ pc[w] = "except"
    /\ resp' = [resp EXCEPT ![w] = ErrorResponse(request[w], exc[w].e)]
    /\ pc' = [pc EXCEPT ![w] = "done"]
    /\ UNCHANGED << model, features, request, json_data, branch, X, pred, proba, called, exc >>

\* The response is sent and the call's frame is gone.
Finish(w) ==
    /\ pc[w] = "done"
    /\ pc' = [pc EXCEPT ![w] = "idle"]
    /\ request' = [request EXCEPT ![w] = NoRequest]
    /\ json_data' = [json_data EXCEPT ![Frame(w)] = None]
    /\ branch' = [branch EXCEPT ![w] = "none"]
    /\ X' = [X EXCEPT ![Frame(w)] = NoVector]
    /\ pred' = [pred EXCEPT ![Frame(w)] = NoNumber]
    /\ proba' = [proba EXCEPT ![Frame(w)] = NoNumber]
    /\ called' = [called EXCEPT ![w] = << >>]
    /\ exc' = [exc EXCEPT ![w] = NoExc]
    /\ resp' = [resp EXCEPT ![w] = NoResponse]
    /\ UNCHANGED << model, features >>

\* The steps of worker w once it holds a request.
Step(w) ==
    \/ ParseJson(w)
    \/ EncodeJson(w)
    \/ EncodeForm(w)
    \/ Predict(w)
    \/ PredictProba(w)
    \/ RespondJson(w)
    \/ RespondHtml(w)
    \/ HandleException(w)
    \/ Finish(w)

\* predict() run from entry to return on its own, as one function of the
\* request and the loaded classifier.
PredictAlone(req) ==
    LET got == GetJson(req)
        json == Truthy(got.val)
        enc == IF json THEN BuildFeatureVectorFromJson(got.val)
               ELSE BuildFeatureVectorFromForm(RequestForm(req))
        label == ModelPredict(model, enc.val)
        row == ModelPredictProba(model, enc.val)
    IN  IF ~got.ok THEN InternalServerError
        ELSE IF ~enc.ok THEN ErrorResponse(req, enc.exc)
        ELSE IF ~label.ok THEN ErrorResponse(req, label.exc)
        ELSE IF ~row.ok THEN ErrorResponse(req, row.exc)
        ELSE IF json /\ IsJson(req)
             THEN JsonPrediction(Message(label.val), PositiveProba(row.val))
             ELSE RenderTemplate(PredictionText(Message(label.val), PositiveProba(row.val)))

\* One request at a time, drawn from all of Requests.
Next ==
    \/ Receive(1, Requests)
    \/ Step(1)

Spec == Init /\ [][Next]_vars

\* NumWorkers requests at a time, drawn from ConcRequests, their steps
\* interleaved in any order.
NextConc ==
    \E w \in Workers :
        \/ Receive(w, ConcRequests)
        \/ Step(w)

SpecConc == Init /\ [][NextConc]_vars

(* ------------------------------------------------------------------ *)
(* What the claims speak of                                             *)
(* ------------------------------------------------------------------ *)

\* Worker w's locals.
JsonData(w) == json_data[Frame(w)]
Vector(w) == X[Frame(w)]

\* Worker w is past the encoder it chose.
PastEncoding(w) == branch[w] # "none"

\* The float a JSON field value stands for: a number itself, true and false
\* 1.0 and 0.0, the string "1.5" the number 1.5, null nan.
JsonOracle(val) ==
    CASE val.t = "num" -> Fin(val.num)
      [] val.t = "bool" -> IF val.bool THEN Fin(100) ELSE Fin(0)
      [] val = JStr(<< "1",".","5" >>) -> Fin(150)
      [] val = None -> NaN

\* The JSON field values np.array(..., dtype=float) cannot convert.
Unconvertible == { JStr(<< "a","b","c" >>), JList(<< JNum(100) >>) }

\* The float each form string of the model stands for.
FormOracle(str) ==
    CASE str = << >> -> Fin(0)
      [] str = << "1" >> -> Fin(100)
      [] str = << "0" >> -> Fin(0)
      [] str = << "1",".","0" >> -> Fin(100)
      [] str = << " ","1"," " >> -> Fin(100)
      [] str = << "2",".","5" >> -> Fin(250)
      [] str = << "M","a","l","e" >> -> Fin(100)
      [] str = << " ","M"," " >> -> Fin(100)
      [] str = << "F","E","M","A","L","E" >> -> Fin(0)
      [] str = << "f" >> -> Fin(0)
      [] str = << "y","e","s" >> -> Fin(100)
      [] str = << "Y" >> -> Fin(100)
      [] str = << "T","r","u","e" >> -> Fin(100)
      [] str = << "a","b","c" >> -> Fin(0)
      [] str = << "n","a","n" >> -> NaN

\* The schema names the requests use, with their positions in FEATURES.
SlotOf(name) ==
    CASE name = "Sex" -> 1
      [] name = "Fever" -> 10
      [] name = "Other complications" -> 38
SchemaKeys == {"Sex", "Fever", "Other complications"}

\* The fields of the input record worker w's encoder was given.
InputFields(w) ==
    IF branch[w] = "json"
    THEN (IF request[w].body.val.t = "obj" THEN request[w].body.val.obj ELSE << >>)
    ELSE (IF request[w].body.kind = "form" THEN request[w].body.fields ELSE << >>)

\* The float the input record of worker w gives for a field name.
ExpectedFor(w, name) ==
    IF name \notin DOMAIN InputFields(w) THEN Fin(0)
    ELSE IF branch[w] = "json" THEN JsonOracle(InputFields(w)[name])
    ELSE FormOracle(InputFields(w)[name])

(* ------------------------------------------------------------------ *)
(* C1                                                                   *)
(* ------------------------------------------------------------------ *)

\* C1 as stated: every vector handed to the classifier has exactly 37
\* positions.
C1_VectorHas37Positions ==
    \A w \in Workers : \A n \in 1..Len(called[w]) : Len(called[w][n].arg) = 37

\* C1, amended: every vector handed to the classifier, whether the JSON or
\* the form encoder built it and whatever fields the record supplied, has
\* exactly 38 positions, one per name of FEATURES, in the order of FEATURES:
\* "Sex" is position 1, "Fever" position 10, "Other complications" position
\* 38, and a position whose name the record does not supply holds 0.
C1_VectorHas38PositionsInSchemaOrder ==
    \A w \in Workers : \A n \in 1..Len(called[w]) :
        LET x == called[w][n].arg
        IN  /\ Len(x) = 38
            /\ Len(FEATURES) = 38
            /\ \A k \in SchemaKeys : x[SlotOf(k)] = ExpectedFor(w, k)
            /\ \A i \in 1..38 :
                  (\A k \in SchemaKeys : i # SlotOf(k)) => x[i] = Fin(0)

\* A form that supplies the last slot and an unknown field reached the
\* classifier.
C1_Witness ==
    \E w \in Workers :
        /\ Len(called[w]) >= 1
        /\ branch[w] = "form"
        /\ DOMAIN InputFields(w) = {"Other complications", "Age"}
        /\ called[w][1].arg[38] = Fin(250)

(* ------------------------------------------------------------------ *)
(* C2                                                                   *)
(* ------------------------------------------------------------------ *)

\* C2: a request that declares JSON content type is answered with JSON:
\* status 200 with "prediction" and "probability", or status 400 with
\* "error"; never with a rendered page.
C2_JsonCallerGetsJson ==
    \A w \in Workers :
        (pc[w] = "done" /\ request[w].ctype = "json") =>
            /\ resp[w].kind = "json"
            /\ \/ resp[w].status = 200 /\ DOMAIN resp[w].body = {"prediction", "probability"}
               \/ resp[w].status = 400 /\ DOMAIN resp[w].body = {"error"}

(* ------------------------------------------------------------------ *)
(* C3                                                                   *)
(* ------------------------------------------------------------------ *)

\* A JSON field value carried unchanged: the element equals the value (as
\* Python compares them, True being 1 and False 0).
Unchanged(val, x) ==
    CASE val.t = "num" -> x = Fin(val.num)
      [] val.t = "bool" -> x = (IF val.bool THEN Fin(100) ELSE Fin(0))
      [] OTHER -> FALSE

\* The JSON encoder ran on an object.
JsonEncoderRan(w) == branch[w] = "json" /\ JsonData(w).t = "obj"

\* C3 as stated: for every JSON mapping the encoder gives a vector that
\* carries, at each slot whose key is present, that value unchanged, and 0
\* at every other slot.
C3_JsonValuesUnchanged ==
    \A w \in Workers :
        JsonEncoderRan(w) =>
            /\ Len(Vector(w)) = Len(FEATURES)
            /\ \A i \in 1..Len(FEATURES) :
                  IF FEATURES[i] \in DOMAIN JsonData(w).obj
                  THEN Unchanged(JsonData(w).obj[FEATURES[i]], Vector(w)[i])
                  ELSE Vector(w)[i] = Fin(0)

\* C3, amended: when every value the mapping supplies under a schema name
\* converts to float, position i of the vector is the value under
\* FEATURES[i] converted to float (a number keeps its value, true is 1.0, a
\* numeric string is parsed, null is nan) if the key is present and 0
\* otherwise; when some value under a schema name does not convert, the
\* encoder raises and gives no vector.  Keys that are not schema names have
\* no effect either way.
C3_JsonValuesConvertedToFloat ==
    \A w \in Workers :
        JsonEncoderRan(w) =>
            LET m == JsonData(w).obj
                bad == \E i \in 1..Len(FEATURES) :
                          FEATURES[i] \in DOMAIN m /\ m[FEATURES[i]] \in Unconvertible
            IN  IF bad
                THEN exc[w].at = "encode" /\ Vector(w) = NoVector
                ELSE /\ exc[w].at # "encode"
                     /\ Len(Vector(w)) = Len(FEATURES)
                     /\ \A i \in 1..Len(FEATURES) :
                           Vector(w)[i] =
                               IF FEATURES[i] \in DOMAIN m
                               THEN JsonOracle(m[FEATURES[i]])
                               ELSE Fin(0)

\* The JSON encoder gave a vector for {"Fever": "1.5", "Age": "abc"}.
C3_Witness ==
    \E w \in Workers :
        /\ JsonEncoderRan(w)
        /\ pc[w] = "predict"
        /\ DOMAIN JsonData(w).obj = {"Fever", "Age"}
        /\ JsonData(w).obj["Age"] = JStr(<< "a","b","c" >>)
        /\ Vector(w)[10] = Fin(150)

(* ------------------------------------------------------------------ *)
(* C4                                                                   *)
(* ------------------------------------------------------------------ *)

\* The form encoder ran.
FormEncoderRan(w) == branch[w] = "form"

\* C4: the form encoder gives 0 for an absent or empty field, the parsed
\* number for a string that parses as a float, taken on the numeric path
\* ("1.0", "1", " 1 " and "0" never reach the table), and for a string that
\* does not parse, trimmed and lower-cased, 1.0 for male/m/yes/y/true and 0.0
\* for female/f and anything else; {"Sex": "Male"} alone gives 1.0 at the Sex
\* position and 0 everywhere else.
C4_FormValuesCoerced ==
    \A w \in Workers :
        FormEncoderRan(w) =>
            LET f == InputFields(w)
            IN  /\ exc[w].at # "encode"
                /\ Len(Vector(w)) = Len(FEATURES)
                /\ \A i \in 1..Len(FEATURES) :
                      Vector(w)[i] =
                          IF FEATURES[i] \in DOMAIN f THEN FormOracle(f[FEATURES[i]])
                          ELSE Fin(0)
                /\ \A k \in DOMAIN f :
                      /\ f[k] \in { << "1",".","0" >>, << "1" >>, << "0" >>,
                                     << " ","1"," " >>, << "2",".","5" >> }
                            => FormPath(f[k]) = "numeric"
                      /\ f[k] \in { << "M","a","l","e" >>, << " ","M"," " >>,
                                     << "F","E","M","A","L","E" >>, << "f" >>,
                                     << "y","e","s" >>, << "Y" >>,
                                     << "T","r","u","e" >>, << "a","b","c" >> }
                            => FormPath(f[k]) = "lexical"
                /\ (DOMAIN f = {"Sex"} /\ f["Sex"] = << "M","a","l","e" >>) =>
                      \A i \in 1..38 : Vector(w)[i] = IF i = 1 THEN Fin(100) ELSE Fin(0)

\* The form encoder gave a vector for {"Sex": "Male"}.
C4_Witness ==
    \E w \in Workers :
        /\ FormEncoderRan(w)
        /\ pc[w] = "predict"
        /\ request[w].body = FormBody([k \in {"Sex"} |-> << "M","a","l","e" >>])
        /\ Vector(w)[1] = Fin(100)

(* ------------------------------------------------------------------ *)
(* C5                                                                   *)
(* ------------------------------------------------------------------ *)

\* An exception was raised by an encoder or by the classifier.
RaisedInside(w) == exc[w].at \in {"encode", "predict", "predict_proba"}

\* C5: an exception raised in encoding or classification never leaves
\* predict() and never yields a prediction: the handler goes to its except
\* clause, and the response is status 400 with a JSON body {"error": text}
\* when the request declared JSON content type, and otherwise the rendered
\* page holding "Error: " and the text.
C5_ExceptionsBecomeErrorResponses ==
    \A w \in Workers :
        RaisedInside(w) =>
            /\ pc[w] \in {"except", "done"}
            /\ exc[w].e.text # ""
            /\ pc[w] = "done" =>
                  IF request[w].ctype = "json"
                  THEN resp[w] = [kind |-> "json", status |-> 400,
                                  body |-> [error |-> exc[w].e.text]]
                  ELSE /\ resp[w].kind = "html"
                       /\ resp[w].status = 200
                       /\ resp[w].body.t = "error"
                       /\ resp[w].body.message = exc[w].e.text

\* A form submission whose vector the classifier rejected got the page with
\* the error text.
C5_Witness ==
    \E w \in Workers :
        /\ pc[w] = "done"
        /\ exc[w].at = "predict"
        /\ request[w].ctype = "form"
        /\ resp[w].body.t = "error"

(* ------------------------------------------------------------------ *)
(* C6                                                                   *)
(* ------------------------------------------------------------------ *)

\* Worker w has returned a prediction.
Predicted(w) == pc[w] = "done" /\ exc[w].at = "none"

\* C6: on both branches the response holds the negative message for label
\* 0 and the positive message for label 1, and the probability it reports is
\* entry 1 of the row predict_proba returned for the vector predict was
\* given: as a number in the JSON body, printed to two decimals in the page.
C6_MessageAndPositiveClassProbability ==
    \A w \in Workers :
        Predicted(w) =>
            /\ Len(called[w]) = 2
            /\ called[w][1].fn = "predict"
            /\ called[w][2].fn = "predict_proba"
            /\ called[w][1].arg = called[w][2].arg
            /\ LET label == called[w][1].ret.val
                   p1 == called[w][2].ret.val[2]
                   message == IF resp[w].kind = "json" THEN resp[w].body.prediction
                              ELSE resp[w].body.message
               IN  /\ label = 0 => message = "You have not contracted COVID-19"
                   /\ label = 1 => message = "You most likely have contracted COVID-19"
                   /\ p1 \in 0..1000
                   /\ IF resp[w].kind = "json"
                      THEN resp[w].body.probability = p1
                      ELSE /\ resp[w].body.t = "prediction"
                           /\ 10 * resp[w].body.probability2f - 5 <= p1
                           /\ p1 < 10 * resp[w].body.probability2f + 5

\* A JSON caller got the positive message with probability 0.876.
C6_Witness ==
    \E w \in Workers :
        /\ Predicted(w)
        /\ branch[w] = "json"
        /\ called[w][1].ret.val = 1
        /\ resp[w].kind = "json"
        /\ resp[w].body.probability = 876

(* ------------------------------------------------------------------ *)
(* C7                                                                   *)
(* ------------------------------------------------------------------ *)

\* Worker w holds a JSON request whose body does not parse and is past the
\* parse step.
MalformedParsed(w) ==
    /\ request[w].ctype = "json"
    /\ request[w].body.kind = "malformed"
    /\ pc[w] \notin {"idle", "parse"}

\* C7: for a request whose JSON body fails to parse, the parse step raises
\* nothing and leaves json_data None, the handler goes on to the form branch
\* and its encoder, and the JSON encoder is never invoked.
C7_MalformedJsonFallsToFormBranch ==
    \A w \in Workers :
        MalformedParsed(w) =>
            /\ exc[w].at # "parse"
            /\ resp[w].status # 500
            /\ JsonData(w) = None
            /\ branch[w] # "json"
            /\ pc[w] # "dispatch" => branch[w] = "form"

\* A request with a malformed JSON body was answered from the form branch.
C7_Witness ==
    \E w \in Workers :
        /\ MalformedParsed(w)
        /\ pc[w] = "done"
        /\ branch[w] = "form"
        /\ Len(called[w]) = 2

(* ------------------------------------------------------------------ *)
(* C8                                                                   *)
(* ------------------------------------------------------------------ *)

\* The request had a JSON body that was present and parsed.
JsonBodyParsed(req) == req.ctype = "json" /\ req.body.kind = "json"

\* C8: the JSON branch is taken exactly when a JSON body was present and
\* parsed, an empty object included, and the form branch only otherwise; a
\* prediction is JSON-in/JSON-out, JSON-in/HTML-out or form-in/HTML-out.
C8_JsonBranchIffJsonBodyParsed ==
    \A w \in Workers :
        /\ PastEncoding(w) => (branch[w] = "json" <=> JsonBodyParsed(request[w]))
        /\ Predicted(w) =>
              << branch[w], resp[w].kind >> \in
                  { << "json", "json" >>, << "json", "html" >>, << "form", "html" >> }

(* ------------------------------------------------------------------ *)
(* C9                                                                   *)
(* ------------------------------------------------------------------ *)

\* The JSON encoder ran on an object that supplies, under a schema name, a
\* value that is no number and does not convert to one.
NonNumericSupplied(w) ==
    /\ JsonEncoderRan(w)
    /\ \E i \in 1..Len(FEATURES) :
          /\ FEATURES[i] \in DOMAIN JsonData(w).obj
          /\ JsonData(w).obj[FEATURES[i]] \in Unconvertible

\* C9 as stated: with a non-numeric value under a schema name the JSON
\* encoder completes, passing the value through, and the failure is raised
\* only where the classifier is invoked, never during encoding.
C9_NonNumericFailsAtClassifier ==
    \A w \in Workers :
        NonNumericSupplied(w) =>
            /\ exc[w].at # "encode"
            /\ Vector(w) # NoVector
            /\ pc[w] = "done" => exc[w].at \in {"predict", "predict_proba"}

\* C9, amended: with a value under a schema name that does not convert to
\* float (a non-numeric string, a nested array) the JSON encoder itself
\* raises, in np.array(..., dtype=float): it gives no vector, the classifier
\* is never invoked for the request, and the except clause answers.
C9_NonNumericFailsInEncoder ==
    \A w \in Workers :
        NonNumericSupplied(w) =>
            /\ exc[w].at = "encode"
            /\ exc[w].e.type \in {"ValueError", "TypeError"}
            /\ Vector(w) = NoVector
            /\ called[w] = << >>
            /\ pc[w] \in {"except", "done"}
            /\ pc[w] = "done" => resp[w].status = 400 /\ DOMAIN resp[w].body = {"error"}

\* {"Fever": "abc"} was answered with status 400.
C9_Witness ==
    \E w \in Workers :
        /\ NonNumericSupplied(w)
        /\ JsonData(w).obj = [k \in {"Fever"} |-> JStr(<< "a","b","c" >>)]
        /\ pc[w] = "done"
        /\ resp[w].status = 400

(* ------------------------------------------------------------------ *)
(* C10                                                                  *)
(* ------------------------------------------------------------------ *)

\* The vector the encoders give for a request handled on its own.
VectorAlone(req) ==
    IF Truthy(GetJson(req).val)
    THEN BuildFeatureVectorFromJson(GetJson(req).val)
    ELSE BuildFeatureVectorFromForm(RequestForm(req))

\* Every worker that holds a vector holds the one built from its own
\* request, and every response is the one its request gets when handled
\* alone.
Isolated ==
    \A w \in Workers :
        /\ pc[w] \in {"predict", "predict_proba", "respond"} =>
              Vector(w) = VectorAlone(request[w]).val
        /\ pc[w] = "done" => resp[w] = PredictAlone(request[w])

\* C10: under every interleaving of the requests handled at the same time,
\* no step writes the classifier or the feature schema, each request's
\* vector is built from that request alone, and each response equals the
\* response the request gets when it is handled alone.
C10_RequestsAreIsolated ==
    /\ []Isolated
    /\ [][model' = model /\ features' = features]_vars

\* Two requests are in flight at once: one answered with a prediction while
\* another, with a different body, has failed in its encoder.
C10_Witness ==
    \E v, w \in Workers :
        /\ v # w
        /\ pc[v] = "done" /\ resp[v].status = 200
        /\ pc[w] = "except" /\ exc[w].at = "encode"
        /\ request[v] # request[w]

====
